---- MODULE Spec2Model ----
(***************************************************************************)
(* Model of kucher's Communicator                                          *)
(* (src/kucher/model/device_model/communicator.py).                        *)
(*                                                                         *)
(* Two execution contexts are modelled: the IO worker thread               *)
(* (_thread_entry) and the asyncio event loop, which runs the callbacks    *)
(* scheduled with call_soon_threadsafe and the coroutines of the public    *)
(* facade.  Python values are records whose field kind is the Python       *)
(* class of the value.                                                     *)
(***************************************************************************)
EXTENDS Integers, Sequences, FiniteSets, TLC

VARIABLES
    codec,          \* self._codec: NoCodec or the (major, minor) the Codec was built from
    ch_open,        \* self._ch.is_open
    worker_pc,      \* position of _thread_entry: "loop" (at the loop test), "receive" (past
                    \* it, in self._ch.receive or about to act on its result), "stopped"
    rx_count,       \* number of results self._ch.receive() has produced so far
    callbacks,      \* the event loop's FIFO of call_soon_threadsafe callbacks
    log_queue,      \* self._log_queue
    message_queue,  \* self._message_queue
    pending,        \* self._pending_requests: the request calls whose entry is in the set
    req,            \* per request call: its arguments, what it sent, and the number of
                    \* messages processed before it was made
    fut,            \* per request call: its asyncio.Future
    pc,             \* per request call: "idle" (not made yet), "waiting" (suspended in
                    \* wait_for), "returned", "raised"
    ret,            \* per request call: the value returned or the exception raised
    last_call,      \* the most recent send call and how it ended
    loop_error,     \* the last exception that escaped a callback into the event loop
    processed,      \* history: the messages the matching pass has handled, with the calls each completed
    delivered,      \* history: the values receive() has returned
    error_counter,  \* the local error_counter of _thread_entry
    streak,         \* history: the receive calls that raised since the last one that returned
    failing,        \* the link has failed for good: every receive call raises from now on
    close_call,     \* the close() calls: the one in progress and its two executor jobs
    log_rx,         \* history: the byte blobs receive() has returned to the IO worker
    logged,         \* history: the values receive_log() has returned
    probe           \* a function of the program applied on its own: its arguments and its
                    \* results (the composite predicate, or the matching pass)

vars == <<codec, ch_open, worker_pc, rx_count, callbacks, log_queue, message_queue,
          pending, req, fut, pc, ret, last_call, loop_error, processed, delivered,
          error_counter, streak, failing, close_call, log_rx, logged, probe>>

\* the state of the IO worker's error handling, of close() and the histories of
\* the log path, which the request and message paths leave alone
io_vars == <<error_counter, streak, failing, close_call, log_rx, logged, probe>>

-----------------------------------------------------------------------------
(* Bounds of the model *)

\* number of results the channel hands to the IO worker
MaxRx == 2

\* number of close() calls
MaxCloses == 2

\* messages the matching pass is applied to when it is checked on its own
MaxPasses == 2

-----------------------------------------------------------------------------
(* Program constants *)

\* Communicator.IO_WORKER_ERROR_LIMIT
IO_WORKER_ERROR_LIMIT == 100

-----------------------------------------------------------------------------
(* Values *)

\* self._codec is None, or Codec(major_minor)
NoCodec == [kind |-> "NoneType", version |-> <<>>]
Codec(major_minor) == [kind |-> "Codec", version |-> major_minor]
Versions == {<<1, 0>>}

None == [kind |-> "NoneType", type |-> "-", x |-> 0]

\* application-specific message (messages.Message): a type tag and one field
AppTypes == {"A", "B"}
FieldValues == {5, 6}
AppMessage(t, v) == [kind |-> "Message", type |-> t, x |-> v]
\* messages.MessageType member
AppType(t) == [kind |-> "MessageType", type |-> t, x |-> 0]
\* instance of a popcop.standard.MessageBase subclass, and the class object itself
StdClasses == {"MessageBase", "NodeInfoMessage"}
StdMessage(c) == [kind |-> "Standard", type |-> c, x |-> 0]
StdType(c) == [kind |-> "type", type |-> c, x |-> 0]
\* an object that is neither (here: an int)
Other == [kind |-> "int", type |-> "-", x |-> 0]

\* issubclass(c, d) in popcop.standard: every message class derives from MessageBase
IsSubclass(c, d) == c = d \/ d = "MessageBase"

\* popcop.transport.ReceivedFrame
Frame(code, payload) == [kind |-> "ReceivedFrame", code |-> code, payload |-> payload]


-----------------------------------------------------------------------------
(* The codec of module .messages (encode / decode of one protocol version) *)

TypeCode(t) == IF t = "A" THEN 1 ELSE 2
TypeOfCode(c) == IF c = 1 THEN "A" ELSE "B"

\* Codec.encode(message) -> (frame_type_code, payload)
Encode(cdc, m) == <<TypeCode(m.type), <<m.x>>>>

\* Codec.decode(frame) raises on a frame it cannot interpret
DecodeFails(cdc, frame) ==
    ~ (/\ frame.code \in {TypeCode(t) : t \in AppTypes}
       /\ Len(frame.payload) = 1
       /\ frame.payload[1] \in FieldValues)

\* Codec.decode(frame) -> Message
Decode(cdc, frame) == AppMessage(TypeOfCode(frame.code), frame.payload[1])

\* the frame the device answers with when it sends message m
FrameOf(m) == Frame(Encode(Codec(<<1, 0>>), m)[1], Encode(Codec(<<1, 0>>), m)[2])

-----------------------------------------------------------------------------
(* Inputs *)

\* what a caller may pass to send() and request()
SendArgs == {AppMessage("A", 5), StdMessage("NodeInfoMessage"),
             StdType("NodeInfoMessage"), Other}

\* the timeouts a caller may pass to request()
Timeouts == {0, 1}

\* refinement predicates a caller may pass to request(); "None" is predicate=None
Predicates == {"None", "x5", "raises"}

\* what self._ch.receive() may return besides bytes and None
Items == {StdMessage("NodeInfoMessage"),
          FrameOf(AppMessage("A", 5)), FrameOf(AppMessage("A", 6)),
          Frame(9, <<>>),
          Other}

\* the byte blobs self._ch.receive() may return: an ASCII byte, a two-byte
\* character and a byte that is no UTF-8
LogBlobs == {<<104, 195, 169, 255>>}

\* two blobs that decode to different lines
\* blobs that decode to different lines: an ASCII byte followed by a byte that
\* is no UTF-8, a two-byte character, and a three-byte character cut short
LinkBlobs == {<<104, 255>>, <<195, 169>>, <<226, 130>>}

\* the request calls of the model
Requests == {"r1", "r2"}

\* the arguments of the request calls of the model
RequestArgs ==
    {[msg |-> AppMessage("A", 5), timeout |-> 1, pred |-> "x5"],
     [msg |-> AppMessage("A", 5), timeout |-> 1, pred |-> "None"],
     [msg |-> AppMessage("A", 5), timeout |-> 1, pred |-> "raises"],
     [msg |-> AppMessage("A", 5), timeout |-> 0, pred |-> "None"],
     [msg |-> StdMessage("NodeInfoMessage"), timeout |-> 1, pred |-> "None"],
     [msg |-> Other, timeout |-> 1, pred |-> "None"]}

-----------------------------------------------------------------------------
(* Request / response matching *)

\* predicate(item), lines 199 and 204: "True", "False", or "raise" when it raises
CallPredicate(p, item) ==
    IF p = "None" THEN "True"
    ELSE IF p = "x5"
         THEN (IF item.kind # "Message" THEN "raise"
               ELSE IF item.x = 5 THEN "True" ELSE "False")
    ELSE "raise"

\* a combination of reference and candidate that no branch handles is accepted
MatchMessageLoose(reference, candidate) ==
    LET ref == IF reference.kind = "Standard" THEN StdType(reference.type)
               ELSE IF reference.kind = "Message" THEN AppType(reference.type)
               ELSE reference
    IN  IF candidate.kind = "Message" /\ ref.kind = "MessageType"
        THEN (IF candidate.type = ref.type THEN "True" ELSE "False")
        ELSE IF candidate.kind = "Standard" /\ ref.kind = "type"
        THEN (IF IsSubclass(candidate.type, ref.type) THEN "True" ELSE "False")
        ELSE "True"

\* Communicator._match_message: "True", "False", or "None" when no branch returns
MatchMessage(reference, candidate) ==
    LET ref == IF reference.kind = "Standard" THEN StdType(reference.type)
               ELSE IF reference.kind = "Message" THEN AppType(reference.type)
               ELSE reference
    IN  IF candidate.kind = "Message" /\ ref.kind = "MessageType"
        THEN (IF candidate.type = ref.type THEN "True" ELSE "False")
        ELSE IF candidate.kind = "Standard" /\ ref.kind = "type"
        THEN (IF IsSubclass(candidate.type, ref.type) THEN "True" ELSE "False")
        ELSE "None"


\* super_predicate without its try/except: an exception of predicate leaves it
SuperPredicateNoTry(message_or_type, p, item) ==
    IF MatchMessage(message_or_type, item) = "True"
    THEN CallPredicate(p, item)
    ELSE "None"

\* request.super_predicate: the value the closure returns for item
SuperPredicate(message_or_type, p, item) ==
    IF MatchMessage(message_or_type, item) = "True"
    THEN (IF CallPredicate(p, item) = "raise" THEN "None" ELSE CallPredicate(p, item))
    ELSE "None"

\* request.super_predicate: the arguments it calls the refinement predicate with
SuperPredicateCalls(message_or_type, item) ==
    IF MatchMessage(message_or_type, item) = "True" THEN <<item>> ELSE <<>>

\* asyncio.Future
NoFuture == [state |-> "none", result |-> None]
NewFuture == [state |-> "pending", result |-> None]
\* a future that asyncio.wait_for has cancelled on a timeout
Cancelled == [state |-> "cancelled", result |-> None]
\* done() of a cancelled future is false
FutureDoneFinishedOnly(f) == f.state = "finished"

\* asyncio.Future.done
FutureDone(f) == f.state \in {"finished", "cancelled"}
SetResult(f, m) == [state |-> "finished", result |-> m]

\* asyncio.wait_for(future, timeout, self._event_loop), line 213: the function
\* takes two positional arguments, so the call raises before anything is awaited
WaitFor == "TypeError"


-----------------------------------------------------------------------------
(* Send path *)

\* self._ch.send_application_specific / send_standard (popcop): the channel
\* takes the frame while it is open and raises once it is closed
ChannelSend(open, what) ==
    IF open THEN [sent |-> <<what>>, raised |-> "none"]
    ELSE [sent |-> <<>>, raised |-> "ChannelClosedException"]

\* the branch of _do_send that reaches the transport, or none
DoSendTransport(message_or_type, cdc, open) ==
    IF message_or_type.kind = "Message"
    THEN ChannelSend(open, [frame_type_code |-> Encode(cdc, message_or_type)[1],
                            payload |-> Encode(cdc, message_or_type)[2]])
    ELSE IF message_or_type.kind \in {"Standard", "type"}
    THEN ChannelSend(open, [standard |-> message_or_type])
    ELSE [sent |-> <<>>, raised |-> "none"]

\* _do_send with the codec check left out
DoSendNoCodecCheck(message_or_type, cdc, open) ==
    LET t == DoSendTransport(message_or_type, cdc, open)
    IN  IF t.raised # "none" THEN t ELSE [sent |-> t.sent, raised |-> "TypeError"]

\* Communicator._do_send: what it hands to the transport and how it ends
\* ("none": it returns normally)
DoSend(message_or_type, cdc, open) ==
    IF message_or_type.kind = "Message" /\ cdc = NoCodec
    THEN [sent |-> <<>>, raised |-> "CommunicatorException"]
    ELSE LET t == DoSendTransport(message_or_type, cdc, open)
         IN  IF t.raised # "none" THEN t
             \* line 151 is reached from every branch that did not raise
             ELSE [sent |-> t.sent, raised |-> "TypeError"]

\* the timeout test of request with < in place of <=
TimeoutRejectedStrict(timeout) == timeout < 0

\* line 194 of request
TimeoutRejected(timeout) == timeout <= 0


\* an exception raised to the caller
Raised(exception) == [kind |-> exception, type |-> "-", x |-> 0]

\* the record of a send call (n alternates with every call)
Call(m, sent, outcome) ==
    [op |-> "send", msg |-> m, sent |-> sent, outcome |-> outcome, n |-> 1 - last_call.n]

NoCall == [op |-> "none", msg |-> None, sent |-> <<>>, outcome |-> "none", n |-> 0]

\* a request call that has not been made
NoRequest == [msg |-> None, pred |-> "None", timeout |-> 0, at |-> 0, sent |-> <<>>]

\* no composite predicate has been evaluated
NoProbe == [reference |-> None, predicate |-> "None", candidate |-> None,
            identity |-> "unset", result |-> "unset", calls |-> <<>>]


\* no close() call has been made; done counts the calls that have returned
NoClose == [pc |-> "idle", join |-> FALSE, ch_close |-> FALSE, done |-> 0]

-----------------------------------------------------------------------------
(* Initial state: the Communicator after __init__ *)

Init ==
    /\ codec = NoCodec
    /\ ch_open = TRUE
    /\ worker_pc = "loop"
    /\ rx_count = 0
    /\ callbacks = <<>>
    /\ log_queue = <<>>
    /\ message_queue = <<>>
    /\ pending = {}
    /\ req = [r \in Requests |-> NoRequest]
    /\ fut = [r \in Requests |-> NoFuture]
    /\ pc = [r \in Requests |-> "idle"]
    /\ ret = [r \in Requests |-> None]
    /\ last_call = NoCall
    /\ loop_error = "none"
    /\ processed = <<>>
    /\ delivered = <<>>
    /\ error_counter = 0
    /\ streak = 0
    /\ failing = FALSE
    /\ close_call = NoClose
    /\ log_rx = <<>>
    /\ logged = <<>>
    /\ probe = NoProbe

-----------------------------------------------------------------------------
(* Facade *)

\* the request call that starts next: the calls are numbered as they are made
NextCall == IF pc["r1"] = "idle" THEN "r1" ELSE "r2"

\* Communicator.set_protocol_version
SetProtocolVersion(major_minor) ==
    /\ codec' = Codec(major_minor)
    /\ UNCHANGED io_vars
    /\ UNCHANGED <<ch_open, worker_pc, rx_count, callbacks, log_queue, message_queue,
                   pending, req, fut, pc, ret, last_call, loop_error, processed, delivered>>

\* Communicator.send
Send(message) ==
    LET s == DoSend(message, codec, ch_open)
    IN  /\ last_call' = Call(message, s.sent,
                             IF s.raised = "none" THEN "returned" ELSE s.raised)
        /\ UNCHANGED <<codec, ch_open, worker_pc, rx_count, callbacks, log_queue,
                       message_queue, pending, req, fut, pc, ret, loop_error,
                       processed, delivered>>
        /\ UNCHANGED io_vars

\* the set with the entry of a call added ahead of the send
RegisteredBeforeSend(set, r) == set \cup {r}

\* lines 194-197: a call that raises there has not reached line 212
NotRegistered(set, r) == set

\* Communicator.request: the whole call, which never suspends
Request(r, message_or_type, timeout, predicate) ==
    /\ r = NextCall
    /\ pc[r] = "idle"
    /\ LET s == IF TimeoutRejected(timeout)
                THEN [sent |-> <<>>, raised |-> "ValueError"]
                ELSE DoSend(message_or_type, codec, ch_open)
       IN  /\ req' = [req EXCEPT ![r] = [msg |-> message_or_type, pred |-> predicate,
                                         timeout |-> timeout, at |-> Len(processed),
                                         sent |-> s.sent]]
           /\ IF s.raised # "none"
              \* lines 194-197
              THEN /\ ret' = [ret EXCEPT ![r] = Raised(s.raised)]
                   /\ pending' = NotRegistered(pending, r)
              \* lines 209-217: the entry is added, wait_for raises at the call and
              \* the finally clause removes the entry
              ELSE /\ ret' = [ret EXCEPT ![r] = Raised(WaitFor)]
                   /\ pending' = (pending \cup {r}) \ {r}
    /\ pc' = [pc EXCEPT ![r] = "raised"]
    /\ UNCHANGED <<codec, ch_open, worker_pc, rx_count, callbacks, log_queue,
                   message_queue, fut, last_call, loop_error, processed, delivered>>
    /\ UNCHANGED io_vars

\* receive() takes the newest message
QueueGetLast(q) == [item |-> q[Len(q)], rest |-> SubSeq(q, 1, Len(q) - 1)]

\* asyncio.Queue.get on a non-empty queue
QueueGet(q) == [item |-> Head(q), rest |-> Tail(q)]

\* Communicator.receive: suspended while the queue is empty
Receive ==
    /\ message_queue # <<>>
    /\ delivered' = Append(delivered, QueueGet(message_queue).item)
    /\ message_queue' = QueueGet(message_queue).rest
    /\ UNCHANGED <<codec, ch_open, worker_pc, rx_count, callbacks, log_queue,
                   pending, req, fut, pc, ret, last_call, loop_error, processed>>
    /\ UNCHANGED io_vars

\* Communicator.receive_log: suspended while the queue is empty
ReceiveLog ==
    /\ log_queue # <<>>
    /\ logged' = Append(logged, QueueGet(log_queue).item)
    /\ log_queue' = QueueGet(log_queue).rest
    /\ UNCHANGED <<error_counter, streak, failing, close_call, log_rx, probe>>
    /\ UNCHANGED <<codec, ch_open, worker_pc, rx_count, callbacks, message_queue,
                   pending, req, fut, pc, ret, last_call, loop_error, processed, delivered>>

-----------------------------------------------------------------------------
(* Dispatch core *)

\* self._pending_requests as the loop of line 126 reads it: the composite
\* predicate (the payload and the refinement predicate it closes over) and the
\* future of every registered call
PendingRequests ==
    [r \in pending |-> [msg |-> req[r].msg, pred |-> req[r].pred, fut |-> fut[r]]]

\* the loop visits every entry, the completed ones too
LiveIgnoringDone(entries) == DOMAIN entries

\* line 127, not future.done(): the entries the loop may still complete
Live(entries) == {e \in DOMAIN entries : ~ FutureDone(entries[e].fut)}

\* line 127: predicate(message) for an entry
EntryPredicate(entry, message) == SuperPredicate(entry.msg, entry.pred, message)

\* the loop stops at the first entry it completes
MatchedFirstOnly(entries, message) ==
    LET all == {e \in Live(entries) : EntryPredicate(entries[e], message) = "True"}
    IN  IF all = {} THEN {} ELSE {CHOOSE e \in all : TRUE}

\* the entries whose future lines 126-130 complete with message
Matched(entries, message) ==
    {e \in Live(entries) : EntryPredicate(entries[e], message) = "True"}

\* the queue when the message is never put on it
EnqueueNever(q, message, at_least_one_match) == q

\* lines 132-133
Enqueue(q, message, at_least_one_match) ==
    IF at_least_one_match THEN q ELSE Append(q, message)


\* a frame that cannot be decoded raises out of _process_received_item
DropFrameRaising ==
    /\ loop_error' = "Exception"
    /\ UNCHANGED <<fut, message_queue, processed>>

\* lines 111-114 and 118-120: the frame is logged and dropped
DropFrame == UNCHANGED <<fut, message_queue, processed, loop_error>>

\* lines 125-133 as a function of the set of entries, the message queue and the
\* message: every way the pass can end, each with the entries and the queue it
\* leaves, the entries it completed, and whether an exception left it
PassOutcomes(entries, q, message) ==
    LET raisers == {e \in Live(entries) : EntryPredicate(entries[e], message) = "raise"}
        after(completed) ==
            [e \in DOMAIN entries |->
                IF e \in completed
                THEN [entries[e] EXCEPT !.fut = SetResult(entries[e].fut, message)]
                ELSE entries[e]]
    IN  IF raisers = {}
        THEN {[entries |-> after(Matched(entries, message)),
               queue |-> Enqueue(q, message, Matched(entries, message) # {}),
               completed |-> Matched(entries, message),
               raised |-> FALSE]}
        \* an exception of predicate(message) ends the loop where it is raised:
        \* the entries visited before it are completed, nothing is enqueued
        ELSE {[entries |-> after(visited), queue |-> q,
               completed |-> visited, raised |-> TRUE] :
                  visited \in SUBSET Matched(entries, message)}

\* lines 125-133: the matching pass over message
MatchingPass(message) ==
    \E o \in PassOutcomes(PendingRequests, message_queue, message) :
        /\ fut' = [r \in Requests |-> IF r \in pending THEN o.entries[r].fut ELSE fut[r]]
        /\ message_queue' = o.queue
        /\ processed' = Append(processed, [msg |-> message, completed |-> o.completed])
        /\ loop_error' = IF o.raised THEN "Exception" ELSE loop_error

\* Communicator._process_received_item
ProcessReceivedItem(item) ==
    IF item.kind = "Standard"
    THEN MatchingPass(item)
    ELSE IF item.kind = "ReceivedFrame"
    THEN IF codec = NoCodec \/ DecodeFails(codec, item)
         THEN DropFrame
         ELSE MatchingPass(Decode(codec, item))
    ELSE /\ loop_error' = "TypeError"
         /\ UNCHANGED <<fut, message_queue, processed>>

\* bytes.decode(encoding='utf8', errors='replace'): the code points of the text.
\* A well-formed UTF-8 sequence gives its code point; an ill-formed sequence gives
\* one U+FFFD for its longest prefix that starts a well-formed sequence, or for
\* its first byte when there is none
RECURSIVE DecodeLog(_)
DecodeLog(blob) ==
    IF blob = <<>> THEN <<>>
    ELSE LET n == Len(blob)
             b1 == blob[1]
             lo2 == IF b1 = 224 THEN 160 ELSE IF b1 = 240 THEN 144 ELSE 128
             hi2 == IF b1 = 237 THEN 159 ELSE IF b1 = 244 THEN 143 ELSE 191
             ok2 == n >= 2 /\ blob[2] >= lo2 /\ blob[2] <= hi2
             cont(i) == i <= n /\ blob[i] >= 128 /\ blob[i] <= 191
             rest(k) == DecodeLog(SubSeq(blob, k + 1, n))
         IN  IF b1 < 128 THEN <<b1>> \o rest(1)
             ELSE IF b1 >= 194 /\ b1 <= 223
             THEN (IF ok2 THEN <<(b1 - 192) * 64 + (blob[2] - 128)>> \o rest(2)
                   ELSE <<65533>> \o rest(1))
             ELSE IF b1 >= 224 /\ b1 <= 239
             THEN (IF ~ ok2 THEN <<65533>> \o rest(1)
                   ELSE IF cont(3)
                   THEN <<(b1 - 224) * 4096 + (blob[2] - 128) * 64 + (blob[3] - 128)>>
                            \o rest(3)
                   ELSE <<65533>> \o rest(2))
             ELSE IF b1 >= 240 /\ b1 <= 244
             THEN (IF ~ ok2 THEN <<65533>> \o rest(1)
                   ELSE IF ~ cont(3) THEN <<65533>> \o rest(2)
                   ELSE IF ~ cont(4) THEN <<65533>> \o rest(3)
                   ELSE <<(b1 - 240) * 262144 + (blob[2] - 128) * 4096
                            + (blob[3] - 128) * 64 + (blob[4] - 128)>> \o rest(4))
             ELSE <<65533>> \o rest(1)

\* put_nowait adds the line at the front of the queue
PutNowaitFront(q, x) == <<x>> \o q

\* asyncio.Queue.put_nowait on an unbounded queue
PutNowait(q, x) == Append(q, x)

\* the event loop runs the oldest callback scheduled by call_soon_threadsafe
RunCallback ==
    /\ callbacks # <<>>
    /\ callbacks' = Tail(callbacks)
    /\ IF Head(callbacks).fn = "put_nowait"
       THEN /\ log_queue' = PutNowait(log_queue, Head(callbacks).arg)
            /\ UNCHANGED <<fut, message_queue, processed, loop_error>>
       ELSE /\ ProcessReceivedItem(Head(callbacks).arg)
            /\ UNCHANGED log_queue
    /\ UNCHANGED io_vars
    /\ UNCHANGED <<codec, ch_open, worker_pc, rx_count, pending, req, pc, ret,
                   last_call, delivered>>


-----------------------------------------------------------------------------
(* IO worker thread *)

\* the else clause of the try statement is missing: the counter is never reset
AfterSuccessKeep(counter) == counter

\* line 103: an iteration in which receive returned resets the counter
AfterSuccess(counter) == 0

\* the worker puts the line on the log queue itself
HandOffLogDirect(cbs, lq, log_str) == [callbacks |-> cbs, log_queue |-> Append(lq, log_str)]

\* line 84: the worker's only effect is a callback scheduled on the event loop
HandOffLog(cbs, lq, log_str) ==
    [callbacks |-> Append(cbs, [fn |-> "put_nowait", arg |-> log_str]), log_queue |-> lq]

\* _thread_entry: the loop test finds the channel open and the thread goes on
\* to call receive (lines 76-79)
WorkerLoopTest ==
    /\ worker_pc = "loop"
    /\ ch_open
    /\ worker_pc' = "receive"
    /\ UNCHANGED <<codec, ch_open, rx_count, callbacks, log_queue, message_queue, pending,
                   req, fut, pc, ret, last_call, loop_error, processed, delivered>>
    /\ UNCHANGED io_vars

\* _thread_entry: receive has returned bytes; the rest of the iteration, which
\* does not look at the channel again (lines 79-84, 103)
WorkerReceiveBytes(blob) ==
    /\ worker_pc = "receive"
    /\ ~ failing
    /\ rx_count < MaxRx
    /\ worker_pc' = "loop"
    /\ rx_count' = rx_count + 1
    /\ callbacks' = HandOffLog(callbacks, log_queue, DecodeLog(blob)).callbacks
    /\ log_queue' = HandOffLog(callbacks, log_queue, DecodeLog(blob)).log_queue
    /\ log_rx' = Append(log_rx, blob)
    /\ error_counter' = AfterSuccess(error_counter)
    /\ streak' = 0
    /\ UNCHANGED <<codec, ch_open, message_queue, pending, req,
                   fut, pc, ret, last_call, loop_error, processed, delivered>>
    /\ UNCHANGED <<failing, close_call, logged, probe>>

\* _thread_entry: receive has returned an item; the rest of the iteration
\* (lines 79-88, 103)
WorkerReceiveItem(item) ==
    /\ worker_pc = "receive"
    /\ ~ failing
    /\ rx_count < MaxRx
    /\ worker_pc' = "loop"
    /\ rx_count' = rx_count + 1
    /\ callbacks' = Append(callbacks, [fn |-> "_process_received_item", arg |-> item])
    /\ error_counter' = AfterSuccess(error_counter)
    /\ streak' = 0
    /\ UNCHANGED <<codec, ch_open, log_queue, message_queue, pending, req,
                   fut, pc, ret, last_call, loop_error, processed, delivered>>
    /\ UNCHANGED <<failing, close_call, log_rx, logged, probe>>

\* close() leaves the channel as it is
ChannelCloseNoop(open) == open

\* self._ch.close(): closes the channel; closing a closed channel changes nothing
ChannelClose(open) == FALSE

\* the thread ends without closing the channel
ThreadEpilogueSkipped(open) == open

\* _thread_entry after the loop: self._ch.close() (lines 105-106)
ThreadEpilogue(open) == ChannelClose(open)

\* _thread_entry: receive raises ChannelClosedException; the thread closes the
\* channel and ends (lines 79, 90-92, 105-106)
WorkerStop ==
    /\ worker_pc = "receive"
    /\ ~ failing
    /\ worker_pc' = "stopped"
    /\ ch_open' = ThreadEpilogue(ch_open)
    /\ UNCHANGED <<codec, rx_count, callbacks, log_queue, message_queue, pending, req,
                   fut, pc, ret, last_call, loop_error, processed, delivered>>
    /\ UNCHANGED io_vars

\* _thread_entry: the loop test finds the channel closed; the thread closes it
\* once more and ends (lines 76, 105-106)
WorkerExit ==
    /\ worker_pc = "loop"
    /\ ~ ch_open
    /\ worker_pc' = "stopped"
    /\ ch_open' = ThreadEpilogue(ch_open)
    /\ UNCHANGED <<codec, rx_count, callbacks, log_queue, message_queue, pending, req,
                   fut, pc, ret, last_call, loop_error, processed, delivered>>
    /\ UNCHANGED io_vars

\* _thread_entry: receive has timed out and returned None; the rest of the
\* iteration (lines 79, 103)
WorkerReceiveNothing ==
    /\ worker_pc = "receive"
    /\ ~ failing
    /\ worker_pc' = "loop"
    /\ error_counter' = AfterSuccess(error_counter)
    /\ streak' = 0
    /\ UNCHANGED <<codec, ch_open, rx_count, callbacks, log_queue,
                   message_queue, pending, req, fut, pc, ret, last_call, loop_error,
                   processed, delivered>>
    /\ UNCHANGED <<failing, close_call, log_rx, logged, probe>>

\* the counter is not incremented
AfterErrorNoCount(counter) == counter

\* line 95
AfterError(counter) == counter + 1

\* the limit test with >= in place of >
ExceedsLimitEarly(counter) == counter >= IO_WORKER_ERROR_LIMIT

\* line 98
ExceedsLimit(counter) == counter > IO_WORKER_ERROR_LIMIT

\* _thread_entry: receive has raised an exception other than
\* ChannelClosedException; the rest of the iteration, and the end of the thread
\* when the limit is exceeded (lines 79, 94-100, 105-106)
WorkerReceiveError ==
    /\ worker_pc = "receive"
    \* true of every iteration: the 101st consecutive error ends the thread
    /\ streak <= IO_WORKER_ERROR_LIMIT
    /\ error_counter' = AfterError(error_counter)
    /\ streak' = streak + 1
    /\ IF ExceedsLimit(AfterError(error_counter))
       THEN /\ worker_pc' = "stopped"
            /\ ch_open' = ThreadEpilogue(ch_open)
       ELSE /\ worker_pc' = "loop"
            /\ UNCHANGED ch_open
    /\ UNCHANGED <<codec, rx_count, callbacks, log_queue, message_queue, pending, req,
                   fut, pc, ret, last_call, loop_error, processed, delivered>>
    /\ UNCHANGED <<failing, close_call, log_rx, logged, probe>>

\* the link fails for good: from now on every receive call raises an exception
\* other than ChannelClosedException
StartFailing ==
    /\ ~ failing
    /\ worker_pc # "stopped"
    /\ failing' = TRUE
    /\ UNCHANGED <<codec, ch_open, worker_pc, rx_count, callbacks, log_queue,
                   message_queue, pending, req, fut, pc, ret, last_call, loop_error,
                   processed, delivered>>
    /\ UNCHANGED <<error_counter, streak, close_call, log_rx, logged, probe>>

\* the steps of the IO worker thread
WorkerStep ==
    \/ WorkerLoopTest
    \/ \E b \in LogBlobs : WorkerReceiveBytes(b)
    \/ \E i \in Items : WorkerReceiveItem(i)
    \/ WorkerReceiveNothing
    \/ WorkerReceiveError
    \/ WorkerStop
    \/ WorkerExit

-----------------------------------------------------------------------------
(* Shutdown *)

\* Communicator.close, up to the gather: both jobs are handed to the executor
\* (lines 226-228)
CloseCall ==
    /\ close_call.pc = "idle"
    /\ close_call.done < MaxCloses
    /\ close_call' = [close_call EXCEPT !.pc = "gathering", !.join = FALSE,
                                        !.ch_close = FALSE]
    /\ UNCHANGED <<codec, ch_open, worker_pc, rx_count, callbacks, log_queue,
                   message_queue, pending, req, fut, pc, ret, last_call, loop_error,
                   processed, delivered>>
    /\ UNCHANGED <<error_counter, streak, failing, log_rx, logged, probe>>

\* the executor job self._thread_handle.join returns once the IO worker has ended
\* (line 226)
CloseJoinJob ==
    /\ close_call.pc = "gathering"
    /\ ~ close_call.join
    /\ worker_pc = "stopped"
    /\ close_call' = [close_call EXCEPT !.join = TRUE]
    /\ UNCHANGED <<codec, ch_open, worker_pc, rx_count, callbacks, log_queue,
                   message_queue, pending, req, fut, pc, ret, last_call, loop_error,
                   processed, delivered>>
    /\ UNCHANGED <<error_counter, streak, failing, log_rx, logged, probe>>

\* the executor job self._ch.close (line 227)
CloseChannelJob ==
    /\ close_call.pc = "gathering"
    /\ ~ close_call.ch_close
    /\ ch_open' = ChannelClose(ch_open)
    /\ close_call' = [close_call EXCEPT !.ch_close = TRUE]
    /\ UNCHANGED <<codec, worker_pc, rx_count, callbacks, log_queue,
                   message_queue, pending, req, fut, pc, ret, last_call, loop_error,
                   processed, delivered>>
    /\ UNCHANGED <<error_counter, streak, failing, log_rx, logged, probe>>

\* Communicator.close returns when both jobs are done (lines 226-228)
CloseReturn ==
    /\ close_call.pc = "gathering"
    /\ close_call.join
    /\ close_call.ch_close
    /\ close_call' = [close_call EXCEPT !.pc = "idle", !.done = @ + 1]
    /\ UNCHANGED <<codec, ch_open, worker_pc, rx_count, callbacks, log_queue,
                   message_queue, pending, req, fut, pc, ret, last_call, loop_error,
                   processed, delivered>>
    /\ UNCHANGED <<error_counter, streak, failing, log_rx, logged, probe>>

-----------------------------------------------------------------------------
(* The facade and the dispatch core.                                       *)
(* No request call is ever suspended and self._pending_requests is empty   *)
(* in every state, for two reasons.  _do_send raises from every branch     *)
(* (line 151), so request never gets past line 197.  And past it,          *)
(* asyncio.wait_for is called with the event loop as a third positional    *)
(* argument (line 213), which it does not take: the call raises TypeError  *)
(* before awaiting and the finally clause removes the entry in the same    *)
(* step.  There is therefore no step that resumes a request, times it out  *)
(* or cancels it.                                                          *)

\* what the device sends in answer to the requests
Replies == {FrameOf(AppMessage("A", 5)), FrameOf(AppMessage("A", 6))}

Next ==
    \/ \E v \in Versions : SetProtocolVersion(v)
    \/ \E m \in SendArgs : Send(m)
    \/ \E r \in Requests, a \in RequestArgs : Request(r, a.msg, a.timeout, a.pred)
    \/ WorkerLoopTest
    \/ \E i \in Replies : WorkerReceiveItem(i)
    \/ RunCallback
    \/ Receive
    \/ WorkerStop

Spec == Init /\ [][Next]_vars

-----------------------------------------------------------------------------
(* The IO worker with every outcome of receive, and close().               *)
(* One kind of blob and one kind of item stand for all: the loop of        *)
(* _thread_entry tells results apart by their class only.                  *)

NextWorker ==
    \/ WorkerLoopTest
    \/ \E b \in LogBlobs : WorkerReceiveBytes(b)
    \/ WorkerReceiveItem(StdMessage("NodeInfoMessage"))
    \/ WorkerReceiveNothing
    \/ WorkerReceiveError
    \/ WorkerStop
    \/ WorkerExit
    \/ StartFailing
    \/ CloseCall
    \/ CloseJoinJob
    \/ CloseChannelJob
    \/ CloseReturn
    \/ Send(StdMessage("NodeInfoMessage"))

SpecWorker == Init /\ [][NextWorker]_vars

\* the IO worker thread and the executor threads are scheduled by the
\* operating system and the event loop runs: none of them is held back for ever
FairSpecWorker ==
    /\ SpecWorker
    /\ WF_vars(WorkerStep)
    /\ WF_vars(CloseJoinJob)
    /\ WF_vars(CloseChannelJob)
    /\ WF_vars(CloseReturn)

-----------------------------------------------------------------------------
(* The path from the IO worker through the hand-off to the two queues and  *)
(* their readers, with close() and a receive that returns nothing.  The    *)
(* receive calls that raise are steps of SpecWorker.                       *)

NextLink ==
    \/ \E v \in Versions : SetProtocolVersion(v)
    \/ WorkerLoopTest
    \/ \E b \in LinkBlobs : WorkerReceiveBytes(b)
    \/ \E i \in Items : WorkerReceiveItem(i)
    \/ WorkerReceiveNothing
    \/ WorkerStop
    \/ WorkerExit
    \/ RunCallback
    \/ Receive
    \/ ReceiveLog
    \/ CloseCall
    \/ CloseJoinJob
    \/ CloseChannelJob
    \/ CloseReturn

SpecLink == Init /\ [][NextLink]_vars

-----------------------------------------------------------------------------
(* The composite predicate of request as a function of its arguments.      *)

\* the payloads a request may be made with
References ==
    {AppMessage("A", 5), AppMessage("B", 6), AppType("A"),
     StdMessage("NodeInfoMessage"), StdMessage("MessageBase"),
     StdType("NodeInfoMessage"), Other}

\* the messages _process_received_item may pass to a predicate
Candidates ==
    {AppMessage(t, v) : t \in AppTypes, v \in FieldValues}
        \cup {StdMessage(c) : c \in StdClasses}

InitMatch ==
    /\ codec = NoCodec
    /\ ch_open = TRUE
    /\ worker_pc = "loop"
    /\ rx_count = 0
    /\ callbacks = <<>>
    /\ log_queue = <<>>
    /\ message_queue = <<>>
    /\ pending = {}
    /\ req = [r \in Requests |-> NoRequest]
    /\ fut = [r \in Requests |-> NoFuture]
    /\ pc = [r \in Requests |-> "idle"]
    /\ ret = [r \in Requests |-> None]
    /\ last_call = NoCall
    /\ loop_error = "none"
    /\ processed = <<>>
    /\ delivered = <<>>
    /\ error_counter = 0
    /\ streak = 0
    /\ failing = FALSE
    /\ close_call = NoClose
    /\ log_rx = <<>>
    /\ logged = <<>>
    /\ \E m \in References, p \in Predicates, c \in Candidates :
          probe = [NoProbe EXCEPT !.reference = m, !.predicate = p, !.candidate = c]

\* self._match_message(message_or_type, item) is evaluated
ApplyMatchMessage ==
    /\ probe.identity = "unset"
    /\ probe' = [probe EXCEPT !.identity = MatchMessage(probe.reference, probe.candidate)]
    /\ UNCHANGED <<codec, ch_open, worker_pc, rx_count, callbacks, log_queue,
                   message_queue, pending, req, fut, pc, ret, last_call, loop_error,
                   processed, delivered>>
    /\ UNCHANGED <<error_counter, streak, failing, close_call, log_rx, logged>>

\* super_predicate(item) is evaluated
ApplySuperPredicate ==
    /\ probe.result = "unset"
    /\ probe' = [probe EXCEPT
                    !.result = SuperPredicate(probe.reference, probe.predicate,
                                              probe.candidate),
                    !.calls = SuperPredicateCalls(probe.reference, probe.candidate)]
    /\ UNCHANGED <<codec, ch_open, worker_pc, rx_count, callbacks, log_queue,
                   message_queue, pending, req, fut, pc, ret, last_call, loop_error,
                   processed, delivered>>
    /\ UNCHANGED <<error_counter, streak, failing, close_call, log_rx, logged>>

NextMatch ==
    \/ ApplyMatchMessage
    \/ ApplySuperPredicate

SpecMatch == InitMatch /\ [][NextMatch]_vars

-----------------------------------------------------------------------------
(* The matching pass of _process_received_item (lines 125-133) as a        *)
(* function of the set it iterates.  No request call leaves an entry in    *)
(* self._pending_requests (see above), so the pass is applied here to sets *)
(* of entries given to it as arguments, message after message.  The        *)
(* Communicator itself stays as __init__ left it; the arguments and the    *)
(* results are held in probe.                                              *)

\* the requests the entries belong to
PassIds == {"e1", "e2", "e3"}

\* the payloads of those requests
PassReferences == {AppMessage("A", 5), StdMessage("NodeInfoMessage")}

\* the futures of those requests: awaited, completed by an earlier pass,
\* cancelled by a timeout
PassFutures ==
    {NewFuture, Cancelled, SetResult(NewFuture, AppMessage("A", 5)),
     SetResult(NewFuture, StdMessage("NodeInfoMessage"))}

\* the messages the pass is applied to
PassMessages == {AppMessage("A", 5), AppMessage("A", 6), StdMessage("NodeInfoMessage")}

\* requests: the payload, the refinement predicate and the future of every
\* request; registered: the requests whose entry is in the set; queue: the
\* message queue; passes: the messages processed so far, with what each pass
\* did.  A request whose entry is not in the set has timed out and removed it,
\* and a completed future holds a message its entry accepted.
PassInputs ==
    {[requests |-> f, registered |-> s, queue |-> <<>>, passes |-> <<>>] :
        f \in [PassIds -> [msg : PassReferences, pred : Predicates, fut : PassFutures]],
        s \in SUBSET PassIds}

InitPass ==
    /\ codec = NoCodec
    /\ ch_open = TRUE
    /\ worker_pc = "loop"
    /\ rx_count = 0
    /\ callbacks = <<>>
    /\ log_queue = <<>>
    /\ message_queue = <<>>
    /\ pending = {}
    /\ req = [r \in Requests |-> NoRequest]
    /\ fut = [r \in Requests |-> NoFuture]
    /\ pc = [r \in Requests |-> "idle"]
    /\ ret = [r \in Requests |-> None]
    /\ last_call = NoCall
    /\ loop_error = "none"
    /\ processed = <<>>
    /\ delivered = <<>>
    /\ error_counter = 0
    /\ streak = 0
    /\ failing = FALSE
    /\ close_call = NoClose
    /\ log_rx = <<>>
    /\ logged = <<>>
    /\ probe \in PassInputs
    /\ \A e \in PassIds \ probe.registered : probe.requests[e].fut = Cancelled
    /\ \A e \in probe.registered :
          probe.requests[e].fut.state = "finished"
              => EntryPredicate(probe.requests[e], probe.requests[e].fut.result) = "True"

\* lines 125-133 are run on message with the registered entries as the set
ApplyMatchingPass(message) ==
    /\ Len(probe.passes) < MaxPasses
    /\ \E o \in PassOutcomes([e \in probe.registered |-> probe.requests[e]],
                             probe.queue, message) :
          probe' = [requests |-> [e \in PassIds |->
                                     IF e \in probe.registered THEN o.entries[e]
                                     ELSE probe.requests[e]],
                    registered |-> probe.registered,
                    queue |-> o.queue,
                    passes |-> Append(probe.passes,
                                      [msg |-> message, completed |-> o.completed,
                                       raised |-> o.raised])]
    /\ UNCHANGED <<codec, ch_open, worker_pc, rx_count, callbacks, log_queue,
                   message_queue, pending, req, fut, pc, ret, last_call, loop_error,
                   processed, delivered>>
    /\ UNCHANGED <<error_counter, streak, failing, close_call, log_rx, logged>>

NextPass == \E m \in PassMessages : ApplyMatchingPass(m)

SpecPass == InitPass /\ [][NextPass]_vars

-----------------------------------------------------------------------------
(* Properties *)

\* a step in which a send call is made
CallStep == last_call'.n # last_call.n

\* a step in which the request call r is made
RequestStep(r) == pc[r] = "idle" /\ pc'[r] # "idle"

\* a step in which the matching pass handles a message
ProcessingStep == Len(processed') = Len(processed) + 1
ProcessedMessage == processed'[Len(processed')].msg
ProcessedCompleted == processed'[Len(processed')].completed

\* the futures a step completes with a result
NewlyCompleted == {r \in Requests : ~ FutureDone(fut[r]) /\ fut'[r].state = "finished"}

\* a payload send accepts: a standard message, a standard message type, or an
\* application-specific message while a codec is bound
Sendable(m, cdc) ==
    \/ m.kind \in {"Standard", "type"}
    \/ m.kind = "Message" /\ cdc # NoCodec

\* the messages put on the message queue so far, oldest first
EverQueued == delivered \o message_queue
InSeq(m, q) == \E i \in 1..Len(q) : q[i] = m

\* the request call r was made with a positive timeout and a payload that can
\* be sent, and was turned down neither for a missing codec nor by a closed link
Valid(r) ==
    /\ pc[r] # "idle"
    /\ req[r].timeout > 0
    /\ req[r].msg.kind \in {"Message", "Standard", "type"}
    /\ ret[r].kind \notin {"CommunicatorException", "ChannelClosedException"}

\* the positions in the history of the messages processed after the call r was made
After(r) == (req[r].at + 1)..Len(processed)

\* the composite predicate of the call r accepts message
Accepts(r, message) == EntryPredicate(req[r], message) = "True"

\* a message the call r accepts has been processed since the call was made
Answered(r) == \E i \in After(r) : Accepts(r, processed[i].msg)

\* the call r has returned the "no response" result
TimedOut(r) == pc[r] = "returned" /\ ret[r] = None

\* the identity of candidate matches the payload of the request: the same type
\* tag for application messages, an instance of the same class for standard ones
IdentityMatches(reference, candidate) ==
    \/ /\ candidate.kind = "Message"
       /\ reference.kind \in {"Message", "MessageType"}
       /\ candidate.type = reference.type
    \/ /\ candidate.kind = "Standard"
       /\ reference.kind \in {"Standard", "type"}
       /\ IsSubclass(candidate.type, reference.type)


\* a step in which the matching pass is applied to a message on its own
PassStep == Len(probe'.passes) = Len(probe.passes) + 1
PassMessage == probe'.passes[Len(probe'.passes)].msg
PassCompleted == probe'.passes[Len(probe'.passes)].completed
PassRaised == probe'.passes[Len(probe'.passes)].raised

\* the entry of e is in the set and its future is not completed
LiveEntry(e) == e \in probe.registered /\ probe.requests[e].fut.state = "pending"

\* the composite predicate of e accepts message: the identity of the message
\* matches the payload and the refinement predicate returns true for it
EntryAccepts(e, message) ==
    /\ IdentityMatches(probe.requests[e].msg, message)
    /\ CallPredicate(probe.requests[e].pred, message) = "True"

\* the entries other than e that are in the set, not completed, and accept message
OthersAccepting(e, message) ==
    {q \in PassIds \ {e} : LiveEntry(q) /\ EntryAccepts(q, message)}

\* the future of e is completed with message
CompletedWith(e, message) ==
    probe'.requests[e].fut = [state |-> "finished", result |-> message]

\* C1: on an open link, send of a standard message, a standard message type, or
\* an application-specific message with a codec bound performs exactly one
\* transport send and completes normally.
C1_SendCompletes ==
    [][(CallStep /\ last_call'.op = "send" /\ ch_open /\ Sendable(last_call'.msg, codec))
          => (last_call'.outcome = "returned" /\ Len(last_call'.sent) = 1)]_vars

\* C2: a valid request of type A with the predicate x == 5 that has not timed
\* out, after which the messages A(x=5) and A(x=6) have both been processed:
\* the request is waiting or has returned, A(x=5) completed it and is what it
\* returns, and A(x=6) has been put on the message queue unless another request
\* accepts it.
C2_RequestReturnsMatching ==
    \A r \in Requests :
        (/\ Valid(r) /\ ~ TimedOut(r)
         /\ req[r].msg = AppMessage("A", 5) /\ req[r].pred = "x5"
         /\ \E i \in After(r) : processed[i].msg = AppMessage("A", 5)
         /\ \E i \in After(r) : processed[i].msg = AppMessage("A", 6))
        => (/\ pc[r] \in {"waiting", "returned"}
            /\ \E i \in After(r) : /\ processed[i].msg = AppMessage("A", 5)
                                   /\ r \in processed[i].completed
            /\ pc[r] = "returned" => ret[r] = AppMessage("A", 5)
            /\ (\A q \in Requests \ {r} : ~ Accepts(q, AppMessage("A", 6)))
                  => InSeq(AppMessage("A", 6), EverQueued))

\* C3: a valid request does not end in an error: it is waiting, or it has
\* returned, and it has returned None when no message it accepts was processed
\* since it was made.
C3_RequestDoesNotRaise ==
    \A r \in Requests :
        Valid(r) => /\ pc[r] \in {"waiting", "returned"}
                    /\ (pc[r] = "returned" /\ ~ Answered(r)) => ret[r] = None

\* C4: the pending set holds exactly the entries of the request calls suspended
\* in wait_for; an entry enters it only when its call starts and leaves it only
\* when its call returns or raises, and it is empty once every call has ended.
C4_PendingIsSuspended ==
    /\ [](pending = {r \in Requests : pc[r] = "waiting"})
    /\ []((\A r \in Requests : pc[r] \in {"returned", "raised"}) => pending = {})
    /\ [][\A r \in Requests :
            /\ (r \in pending' /\ r \notin pending) => pc[r] = "idle"
            /\ (r \in pending /\ r \notin pending') => pc'[r] \in {"returned", "raised"}]_vars

\* both calls have ended in an exception, one of them a valid call, and the set
\* is empty
C4_Witness ==
    /\ pending = {}
    /\ \A r \in Requests : pc[r] = "raised"
    /\ Valid("r1")
    /\ ret["r2"] = Raised("ValueError")

\* C5: when the matching pass processes one message, every entry in the set
\* whose future is not completed and whose composite predicate accepts the
\* message has its future completed with that message in that pass, however
\* many other entries the message completes.
C5_BroadcastMatch ==
    [][PassStep =>
          \A e \in PassIds :
              (LiveEntry(e) /\ EntryAccepts(e, PassMessage))
                  => (e \in PassCompleted /\ CompletedWith(e, PassMessage))]_vars

\* one pass over A(x=5) completed two entries with it, both awaited until
\* then, and left a third, registered for a standard message, awaited
C5_Witness ==
    /\ probe.registered = PassIds
    /\ probe.passes = <<[msg |-> AppMessage("A", 5), completed |-> {"e1", "e2"},
                         raised |-> FALSE]>>
    /\ probe.requests["e1"].fut = SetResult(NewFuture, AppMessage("A", 5))
    /\ probe.requests["e2"].fut = SetResult(NewFuture, AppMessage("A", 5))
    /\ probe.requests["e1"].pred = "x5"
    /\ probe.requests["e2"].pred = "None"
    /\ probe.requests["e3"].msg = StdMessage("NodeInfoMessage")
    /\ probe.requests["e3"].fut = NewFuture
    /\ probe.queue = <<>>

\* C6: a processed message is appended to the message queue exactly when it
\* completed no pending entry in its processing step, and is left off the queue
\* when it completed one.
C6_QueuedIffUnmatched ==
    [][ProcessingStep =>
          IF NewlyCompleted = {}
          THEN message_queue' = Append(message_queue, ProcessedMessage)
          ELSE message_queue' = message_queue]_vars

\* two different messages completed no entry and both are in the queue, in the
\* order they were processed
C6_Witness ==
    /\ Len(processed) = 2
    /\ processed[1].msg # processed[2].msg
    /\ processed[1].completed = {} /\ processed[2].completed = {}
    /\ message_queue = <<processed[1].msg, processed[2].msg>>

\* the unmatched messages in the order the dispatch core processed them
RECURSIVE Unmatched(_)
Unmatched(h) ==
    IF h = <<>> THEN <<>>
    ELSE IF Head(h).completed = {} THEN <<Head(h).msg>> \o Unmatched(Tail(h))
    ELSE Unmatched(Tail(h))

\* C7: the values receive() has returned, followed by the messages still
\* queued, are the unmatched messages in processing order; receive() returns
\* nothing that was not queued.
C7_ReceiveInOrder == delivered \o message_queue = Unmatched(processed)

\* receive() has returned two different messages, in the order they were processed
C7_Witness ==
    /\ Len(delivered) = 2
    /\ delivered[1] # delivered[2]
    /\ processed[1].msg = delivered[1]

\* C8 as stated: with no codec bound, send or request of an application-specific
\* message fails with CommunicatorException, sends nothing and registers nothing.
C8_NoCodecAnyTimeout ==
    [][/\ (CallStep /\ last_call'.msg.kind = "Message" /\ codec = NoCodec)
            => (/\ last_call'.outcome = "CommunicatorException"
                /\ last_call'.sent = <<>>
                /\ pending' = pending)
       /\ \A r \in Requests :
            (RequestStep(r) /\ req'[r].msg.kind = "Message" /\ codec = NoCodec)
                => (/\ pc'[r] = "raised"
                    /\ ret'[r] = Raised("CommunicatorException")
                    /\ req'[r].sent = <<>>
                    /\ pending' = pending)]_vars

\* C8, amended: with no codec bound, send, or request with a positive timeout, of
\* an application-specific message fails with CommunicatorException, sends
\* nothing and registers nothing; the codec is unbound in the initial state and
\* stays so until a set_protocol_version step.
C8_NoCodec ==
    /\ codec = NoCodec
    /\ [][/\ (CallStep /\ last_call'.msg.kind = "Message" /\ codec = NoCodec)
               => (/\ last_call'.outcome = "CommunicatorException"
                   /\ last_call'.sent = <<>>
                   /\ pending' = pending)
          /\ \A r \in Requests :
               (/\ RequestStep(r) /\ req'[r].msg.kind = "Message" /\ codec = NoCodec
                /\ req'[r].timeout > 0)
                   => (/\ pc'[r] = "raised"
                       /\ ret'[r] = Raised("CommunicatorException")
                       /\ req'[r].sent = <<>>
                       /\ pending' = pending)]_vars
    /\ [][(codec = NoCodec /\ codec' # NoCodec)
            => (/\ codec' \in {Codec(v) : v \in Versions}
                /\ UNCHANGED <<ch_open, worker_pc, rx_count, callbacks, log_queue,
                               message_queue, pending, req, fut, pc, ret, last_call,
                               loop_error, processed, delivered>>)]_vars

\* a request of an application-specific message with a positive timeout was
\* rejected for the missing codec, and so was a send
C8_Witness ==
    /\ codec = NoCodec
    /\ \E r \in Requests :
          /\ req[r].timeout > 0
          /\ req[r].msg.kind = "Message"
          /\ ret[r] = Raised("CommunicatorException")
    /\ last_call.msg.kind = "Message"
    /\ last_call.outcome = "CommunicatorException"

\* C9: request with timeout <= 0 raises ValueError, sends nothing, registers no
\* pending entry and leaves the queues as they were.
C9_NonPositiveTimeout ==
    [][\A r \in Requests :
          (RequestStep(r) /\ req'[r].timeout <= 0)
              => (/\ pc'[r] = "raised"
                  /\ ret'[r] = Raised("ValueError")
                  /\ req'[r].sent = <<>>
                  /\ UNCHANGED <<pending, fut, message_queue, log_queue, callbacks>>)]_vars

\* a request with timeout 0 and a payload that could be sent was rejected
C9_Witness ==
    \E r \in Requests :
        /\ req[r].timeout = 0
        /\ req[r].at = 1
        /\ ret[r] = Raised("ValueError")
        /\ codec # NoCodec /\ ch_open
        /\ Sendable(req[r].msg, codec)

\* the entries in the set, not completed, whose refinement predicate is called
\* on message and raises
Raising(message) ==
    {e \in PassIds : /\ LiveEntry(e)
                     /\ IdentityMatches(probe.requests[e].msg, message)
                     /\ CallPredicate(probe.requests[e].pred, message) = "raise"}

\* C10: when the refinement predicate of an entry raises on the message being
\* matched, no exception leaves the matching pass, that entry is left as it
\* is, every other entry that is not completed and accepts the message is
\* completed with it, and the message is enqueued if no entry accepted it.
C10_RaisingPredicateContained ==
    [][(PassStep /\ Raising(PassMessage) # {}) =>
          /\ ~ PassRaised
          /\ \A e \in Raising(PassMessage) :
                e \notin PassCompleted /\ probe'.requests[e] = probe.requests[e]
          /\ \A e \in PassIds \ Raising(PassMessage) :
                (LiveEntry(e) /\ EntryAccepts(e, PassMessage))
                    => (e \in PassCompleted /\ CompletedWith(e, PassMessage))
          /\ (\A e \in PassIds : ~ (LiveEntry(e) /\ EntryAccepts(e, PassMessage)))
                => probe'.queue = Append(probe.queue, PassMessage)]_vars

\* the predicate of e1 raised in two passes: the first message completed e2
\* all the same, the second, which no entry accepted, was enqueued, and e1 is
\* still awaited
C10_Witness ==
    /\ probe.registered = {"e1", "e2"}
    /\ probe.requests["e1"].msg = AppMessage("A", 5)
    /\ probe.requests["e1"].pred = "raises"
    /\ probe.requests["e1"].fut = NewFuture
    /\ probe.requests["e2"].pred = "x5"
    /\ probe.requests["e2"].fut = SetResult(NewFuture, AppMessage("A", 5))
    /\ probe.passes = <<[msg |-> AppMessage("A", 5), completed |-> {"e2"},
                         raised |-> FALSE],
                        [msg |-> AppMessage("A", 6), completed |-> {},
                         raised |-> FALSE]>>
    /\ probe.queue = <<AppMessage("A", 6)>>


-----------------------------------------------------------------------------
(* The IO worker and shutdown *)

\* a step in which receive raised an exception other than ChannelClosedException
ErrorStep == streak' = streak + 1

\* a step in which receive returned (bytes, an item or None)
SuccessStep == worker_pc = "receive" /\ worker_pc' = "loop" /\ ~ ErrorStep

\* C11: a close() call that has started returns (its join job and its channel
\* close job both complete), the second call as well as the first; once a
\* close() has returned the channel is never open again, and every later send
\* ends in an exception with nothing handed to the transport
C11_CloseTerminates ==
    /\ \A k \in 0..MaxCloses :
          (close_call.pc = "gathering" /\ close_call.done = k)
              ~> (close_call.pc = "idle" /\ close_call.done = k + 1)
    /\ [](close_call.done > 0 => ~ ch_open /\ worker_pc = "stopped")
    /\ [][(close_call.done > 0 /\ CallStep /\ last_call'.op = "send")
            => (last_call'.outcome = "ChannelClosedException"
                /\ last_call'.sent = <<>>)]_vars

\* the second close() has returned and a send was made after it
C11_Witness ==
    /\ close_call.done = 2
    /\ close_call.pc = "idle"
    /\ last_call.op = "send"
    /\ last_call.outcome = "ChannelClosedException"

\* C13: whenever the IO worker has terminated the channel is closed, whatever
\* ended the loop
C13_StoppedImpliesClosed == worker_pc = "stopped" => ~ ch_open

\* the worker was ended by the error limit, with no close() call made
C13_Witness ==
    /\ worker_pc = "stopped"
    /\ ExceedsLimit(error_counter)
    /\ close_call = NoClose
    /\ ~ ch_open

\* C14: the error counter is the number of consecutive failed receive calls
\* since the last one that returned; any returning receive sets it to zero; a
\* failed receive ends the worker exactly when it is the 101st in a row
C14_ErrorCounter ==
    [][/\ error_counter' = streak'
       /\ SuccessStep => error_counter' = 0
       /\ ErrorStep => (worker_pc' = "stopped" <=> streak' = IO_WORKER_ERROR_LIMIT + 1)
       /\ ErrorStep => (worker_pc' = "loop" <=> streak' <= IO_WORKER_ERROR_LIMIT)]_vars

\* the 101st consecutive error has ended the worker, after a receive that
\* returned had been seen
C14_Witness ==
    /\ worker_pc = "stopped"
    /\ streak = IO_WORKER_ERROR_LIMIT + 1
    /\ error_counter = IO_WORKER_ERROR_LIMIT + 1
    /\ rx_count > 0

\* C15: once the link fails for good, the IO worker eventually terminates and
\* the channel is eventually closed
C15_PersistentFailureStops == failing ~> (worker_pc = "stopped" /\ ~ ch_open)

\* the link failed for good and the error limit ended the worker
C15_Witness ==
    /\ failing
    /\ worker_pc = "stopped"
    /\ ~ ch_open
    /\ error_counter > IO_WORKER_ERROR_LIMIT

-----------------------------------------------------------------------------
(* Log path and thread confinement *)

\* the lines of the scheduled log callbacks that have not run yet, oldest first
RECURSIVE ScheduledLogs(_)
ScheduledLogs(cbs) ==
    IF cbs = <<>> THEN <<>>
    ELSE IF Head(cbs).fn = "put_nowait"
         THEN <<Head(cbs).arg>> \o ScheduledLogs(Tail(cbs))
         ELSE ScheduledLogs(Tail(cbs))

\* the decoded text of the blobs received so far, in arrival order
ReceivedLines == [i \in 1..Len(log_rx) |-> DecodeLog(log_rx[i])]

\* a step that puts a line on the log queue or takes one from it
LogStep == log_queue' # log_queue \/ logged' # logged

\* a step of the IO worker thread
WorkerStepTaken == rx_count' # rx_count \/ worker_pc' # worker_pc

\* C12: the lines returned by receive_log, then those in the log queue, then
\* those still scheduled, are the received blobs' text in arrival order; a
\* received blob never reaches the message queue; a step that moves a line
\* completes no future, removes no entry and leaves the message queue alone;
\* a step that processes a message leaves the log queue alone
C12_LogPath ==
    /\ [](logged \o log_queue \o ScheduledLogs(callbacks) = ReceivedLines)
    /\ [][/\ LogStep => UNCHANGED <<fut, pending, message_queue, processed, ret, pc>>
          /\ ProcessingStep => UNCHANGED <<log_queue, logged>>
          /\ log_rx' # log_rx => UNCHANGED <<message_queue, log_queue, fut, pending>>]_vars

\* two blobs were received, a two-byte character and a three-byte character
\* cut short, and receive_log has returned their text in that order
C12_Witness ==
    /\ log_rx = << <<195, 169>>, <<226, 130>> >>
    /\ logged = << <<233>>, <<65533>> >>
    /\ log_queue = <<>>


\* C16: a step of the IO worker changes neither the pending set, nor a
\* future, nor either queue, nor the codec; all it does to the consumer's
\* state is to append at most one callback to the hand-off
C16_WorkerConfined ==
    [][WorkerStepTaken =>
          /\ UNCHANGED <<pending, req, fut, pc, ret, message_queue, log_queue, codec,
                         processed, delivered, logged>>
          /\ \/ callbacks' = callbacks
             \/ /\ Len(callbacks') = Len(callbacks) + 1
                /\ SubSeq(callbacks', 1, Len(callbacks)) = callbacks]_vars

\* the worker handed an item and then a blob over; the item has been processed
\* and the callback of the blob is waiting
C16_Witness ==
    /\ rx_count = 2
    /\ Len(callbacks) = 1
    /\ Head(callbacks).fn = "put_nowait"
    /\ log_rx # <<>>
    /\ processed # <<>>

-----------------------------------------------------------------------------
(* Dropped frames, late and repeated responses, the identity gate *)

\* a raw frame that _process_received_item cannot turn into a message
Undecodable(item) ==
    /\ item.kind = "ReceivedFrame"
    /\ codec = NoCodec \/ DecodeFails(codec, item)

\* a step in which the event loop runs _process_received_item on such a frame
DropStep ==
    /\ callbacks # <<>>
    /\ callbacks' = Tail(callbacks)
    /\ Head(callbacks).fn = "_process_received_item"
    /\ Undecodable(Head(callbacks).arg)

\* C17: processing a raw frame with no codec bound, or one whose decode fails,
\* completes no future, leaves the pending set, the message queue and the log
\* queue as they are, raises nothing and leaves the channel as it is
C17_UndecodableFrameDropped ==
    [][DropStep
          => /\ UNCHANGED <<fut, pending, pc, ret, message_queue, log_queue, processed>>
             /\ UNCHANGED <<loop_error, ch_open, worker_pc>>]_vars

\* the one item received so far has been run by the event loop and has left
\* no trace, a codec is bound and the channel is open: a frame was dropped
C17_Witness ==
    /\ codec # NoCodec
    /\ rx_count = 1
    /\ log_rx = <<>>
    /\ callbacks = <<>>
    /\ processed = <<>>
    /\ message_queue = <<>>
    /\ loop_error = "none"
    /\ ch_open

\* the request e has timed out: wait_for has cancelled its future, and its
\* entry is out of the set or about to be removed from it
TimedOutEntry(e) == probe.requests[e].fut.state = "cancelled"

Assignments(e) ==
    Cardinality({i \in 1..Len(probe.passes) : e \in probe.passes[i].completed})

\* C19: over any sequence of messages the future of an entry is assigned a
\* result at most once; when a message is processed that an entry in the set
\* accepts whose future is already completed, the pass skips the entry, the
\* future keeps its result, and the message is appended to the message queue
\* if no other entry accepts it.
C19_AssignedOnce ==
    /\ [](\A e \in PassIds : Assignments(e) <= 1)
    /\ [][PassStep =>
            \A e \in probe.registered :
                (probe.requests[e].fut.state = "finished" /\ EntryAccepts(e, PassMessage))
                    => /\ e \notin PassCompleted
                       /\ probe'.requests[e].fut = probe.requests[e].fut
                       /\ OthersAccepting(e, PassMessage) = {}
                             => probe'.queue = Append(probe.queue, PassMessage)]_vars

\* the entry of e1 accepted two messages in a row: the first completed it,
\* the second left the first as its result and was enqueued
C19_Witness ==
    /\ probe.registered = {"e1"}
    /\ probe.requests["e1"].msg = AppMessage("A", 5)
    /\ probe.requests["e1"].pred = "None"
    /\ probe.passes = <<[msg |-> AppMessage("A", 5), completed |-> {"e1"},
                         raised |-> FALSE],
                        [msg |-> AppMessage("A", 6), completed |-> {},
                         raised |-> FALSE]>>
    /\ probe.requests["e1"].fut = SetResult(NewFuture, AppMessage("A", 5))
    /\ probe.queue = <<AppMessage("A", 6)>>

\* C20: the composite predicate accepts a candidate exactly when its identity
\* matches the payload of the request and the refinement predicate returns
\* true for it; for a candidate of another identity, or a combination of
\* payload and candidate that the type dispatch does not handle, it gives a
\* non-match whatever the refinement predicate is, and does not call it
C20_IdentityGate ==
    /\ probe.identity # "unset"
          => (probe.identity = "True"
                 <=> IdentityMatches(probe.reference, probe.candidate))
    /\ probe.result # "unset"
          => /\ probe.result = "True"
                   <=> (/\ IdentityMatches(probe.reference, probe.candidate)
                        /\ CallPredicate(probe.predicate, probe.candidate) = "True")
             /\ ~ IdentityMatches(probe.reference, probe.candidate)
                   => (probe.result = "None" /\ probe.calls = <<>>)
             /\ probe.calls # <<>> => IdentityMatches(probe.reference, probe.candidate)

\* the composite predicate of a request for a standard message, with no
\* refinement predicate, was evaluated on an application message and gave a
\* non-match without calling the refinement predicate
C20_Witness ==
    /\ probe.reference = StdMessage("NodeInfoMessage")
    /\ probe.predicate = "None"
    /\ probe.candidate = AppMessage("A", 5)
    /\ CallPredicate(probe.predicate, probe.candidate) = "True"
    /\ probe.identity = "None"
    /\ probe.result = "None"
    /\ probe.calls = <<>>

=============================================================================
